---- MODULE Spec2Model ----
(***************************************************************************)
(* FinanceWatcher front end (src/frontend/src/App.js): the chat App, the   *)
(* TypingMessage reveal component and the Formatter.                       *)
(*                                                                         *)
(* Text is a sequence of one-character strings.  React state updates of    *)
(* TypingMessage (setDisplayedText) are queued and applied by the next     *)
(* render of the component; an App render re-renders TypingMessage and     *)
(* then runs its effect again, because the onComplete prop is a new        *)
(* function on every App render.                                           *)
(***************************************************************************)
EXTENDS Integers, Sequences, FiniteSets, TLC

VARIABLES
    messages,        \* App: useState([])            (line 235)
    input,           \* App: useState("")            (line 236)
    isTyping,        \* App: useState(false)         (line 237)
    isWaiting,       \* App: useState(false)         (line 238)
    isUpdating,      \* App: useState(false)         (line 239)
    typingMessage,   \* App: useState(null)          (line 240)
    isCanceled,      \* App: useState(false)         (line 241)
    cancelTypingRef, \* App: useRef(null): "null", or the closure of the live / a former instance
    inflight,        \* sendMessage calls suspended at the await of axios.post
    mounted,         \* a TypingMessage instance is mounted
    key,             \* its key (messages.length when it was mounted)
    displayedText,   \* TypingMessage: useState("")  (line 186)
    typingInterval,  \* TypingMessage: useRef(null), 0 for null (line 187)
    staleInterval,   \* typingInterval.current of the former instance cancelTypingRef closes over
    hasCleanup,      \* the last effect run returned a cleanup function
    queue,           \* setDisplayedText updates not yet applied by a render
    closures,        \* interval id -> [text, currentIndex] of the effect run that made it
    intervals,       \* ids of the intervals that are set and not cleared
    calls,           \* onComplete calls since the last response was received
    lastOp,          \* the handler that ran last
    fmtText,         \* Formatter: the text prop given to it
    fmtOut           \* Formatter: what it rendered for fmtText

vars == <<messages, input, isTyping, isWaiting, isUpdating, typingMessage,
          isCanceled, cancelTypingRef, inflight, mounted, key, displayedText,
          typingInterval, staleInterval, hasCleanup, queue, closures,
          intervals, calls, lastOp, fmtText, fmtOut>>

appVars == <<messages, input, isTyping, isWaiting, isUpdating, typingMessage,
             isCanceled, cancelTypingRef, inflight, mounted, key, displayedText,
             typingInterval, staleInterval, hasCleanup, queue, closures,
             intervals, calls, lastOp>>

fmtVars == <<fmtText, fmtOut>>

-----------------------------------------------------------------------------
(* Bounds of the model *)

\* sendMessage is not taken once the list holds this many messages
MaxMessages == 3

\* ticks whose updater is queued and not yet applied
MaxQueue == 2

-----------------------------------------------------------------------------
(* Text helpers *)

Null == <<"null">>

Truthy(t) == t # Null /\ t # <<>>

IsSpace(c) == c \in {" ", "\n", "\t", "\r"}

IsDigit(c) == c \in {"0", "1", "2", "3", "4", "5", "6", "7", "8", "9"}

RECURSIVE TrimStart(_)
TrimStart(s) ==
    IF s # <<>> /\ IsSpace(Head(s)) THEN TrimStart(Tail(s)) ELSE s

RECURSIVE TrimEnd(_)
TrimEnd(s) ==
    IF s # <<>> /\ IsSpace(s[Len(s)]) THEN TrimEnd(SubSeq(s, 1, Len(s) - 1)) ELSE s

Trim(s) == TrimEnd(TrimStart(s))

FallbackText ==
    <<"I", " ", "c", "o", "u", "l", "d", "n", "'", "t", " ", "g", "e", "n",
      "e", "r", "a", "t", "e", " ", "a", " ", "r", "e", "s", "p", "o", "n",
      "s", "e">>

ErrorText ==
    <<"E", "r", "r", "o", "r", ":", " ", "C", "o", "u", "l", "d", " ", "n",
      "o", "t", " ", "g", "e", "t", " ", "r", "e", "s", "p", "o", "n", "s",
      "e">>

\* what the user can have in the input box
Inputs == {<<>>, <<" ">>, <<"q">>}

\* res.data.response of the backend (the empty one included)
Responses == {<<>>, <<"a">>, <<"a", "b">>}

UserMessage(content) == [role |-> "user", content |-> content]

BotMessage(content) == [role |-> "bot", content |-> content]


-----------------------------------------------------------------------------
(* Formatter: the regular expressions, computed as the engine matches them *)

Min(S) == CHOOSE x \in S : \A y \in S : x <= y

\* . matches any character but a line terminator
IsDot(c) == c \notin {"\n", "\r"}

\* the i flag, and the lower case of a host name: the ASCII letters
Lower(c) ==
    CASE c = "A" -> "a" [] c = "B" -> "b" [] c = "C" -> "c" [] c = "D" -> "d"
      [] c = "E" -> "e" [] c = "F" -> "f" [] c = "G" -> "g" [] c = "H" -> "h"
      [] c = "I" -> "i" [] c = "J" -> "j" [] c = "K" -> "k" [] c = "L" -> "l"
      [] c = "M" -> "m" [] c = "N" -> "n" [] c = "O" -> "o" [] c = "P" -> "p"
      [] c = "Q" -> "q" [] c = "R" -> "r" [] c = "S" -> "s" [] c = "T" -> "t"
      [] c = "U" -> "u" [] c = "V" -> "v" [] c = "W" -> "w" [] c = "X" -> "x"
      [] c = "Y" -> "y" [] c = "Z" -> "z" [] OTHER -> c

CharAt(t, i, c) == i >= 1 /\ i <= Len(t) /\ t[i] = c

\* the literal word w, whatever the case, at position i of t
WordAt(t, i, w) ==
    /\ i >= 1
    /\ i + Len(w) - 1 <= Len(t)
    /\ \A k \in 1..Len(w) : Lower(t[i + k - 1]) = w[k]

\* the first position from i on whose character is not in the class, Len(t) + 1 if none
RECURSIVE SkipSpaces(_, _)
SkipSpaces(t, i) ==
    IF i <= Len(t) /\ IsSpace(t[i]) THEN SkipSpaces(t, i + 1) ELSE i

RECURSIVE SkipDigits(_, _)
SkipDigits(t, i) ==
    IF i <= Len(t) /\ IsDigit(t[i]) THEN SkipDigits(t, i + 1) ELSE i

\* [^\s*]
IsUrlChar(c) == ~IsSpace(c) /\ c # "*"

RECURSIVE SkipUrlChars(_, _)
SkipUrlChars(t, i) ==
    IF i <= Len(t) /\ IsUrlChar(t[i]) THEN SkipUrlChars(t, i + 1) ELSE i

StarsAt(t, i) == CharAt(t, i, "*") /\ CharAt(t, i + 1, "*")

\* \*\*(.+?)\*\* at i: the position of the closing ** of the shortest header, 0 if none
HeaderEnd(t, i) ==
    IF ~StarsAt(t, i) THEN 0
    ELSE LET ends == {j \in (i + 3)..(Len(t) - 1) :
                         /\ StarsAt(t, j)
                         /\ \A k \in (i + 2)..(j - 1) : IsDot(t[k])}
         IN  IF ends = {} THEN 0 ELSE Min(ends)

\* header.match(/^(\d+)\.\s*(.+)/): group 2, or Null when there is no match
NumberHeaderMatch(header) ==
    LET d == SkipDigits(header, 1)
        s == SkipSpaces(header, d + 1)
    IN  IF d = 1 \/ ~CharAt(header, d, ".") \/ d = Len(header) THEN Null
        ELSE IF s <= Len(header) THEN SubSeq(header, s, Len(header))
        ELSE SubSeq(header, Len(header), Len(header))

\* the length of the run of line feeds at i
RECURSIVE RunOfNewlines(_, _)
RunOfNewlines(s, i) ==
    IF i <= Len(s) /\ s[i] = "\n" THEN 1 + RunOfNewlines(s, i + 1) ELSE 0

\* body.split(/\n{2,}/), cur being the piece that ends at i
RECURSIVE SplitParagraphs(_, _, _)
SplitParagraphs(s, i, cur) ==
    IF i > Len(s) THEN <<cur>>
    ELSE IF RunOfNewlines(s, i) >= 2
         THEN <<cur>> \o SplitParagraphs(s, i + RunOfNewlines(s, i), <<>>)
         ELSE SplitParagraphs(s, i + 1, Append(cur, s[i]))

RECURSIVE TrimAndFilter(_)
TrimAndFilter(ps) ==
    IF ps = <<>> THEN <<>>
    ELSE LET p == Trim(Head(ps)) IN
         (IF Len(p) > 0 THEN <<p>> ELSE <<>>) \o TrimAndFilter(Tail(ps))

Paragraphs(body) == TrimAndFilter(SplitParagraphs(body, 1, <<>>))

\* a match whose body is greedy: it runs to the end of the text
SectionMatchGreedy(t, i) ==
    LET closing == HeaderEnd(t, i)
        header == SubSeq(t, i + 2, closing - 1)
        afterColon == IF CharAt(t, closing + 2, ":") THEN closing + 3 ELSE closing + 2
        bodyStart == SkipSpaces(t, afterColon)
        numbered == NumberHeaderMatch(header)
    IN  [section |-> [header |-> IF numbered # Null THEN numbered ELSE header,
                      paragraphs |-> Paragraphs(SubSeq(t, bodyStart, Len(t))),
                      isNumberedHeader |-> numbered # Null],
         lastIndex |-> Len(t) + 1]

\* one match of sectionRegex that starts at i; closing = HeaderEnd(t, i) # 0
SectionMatch(t, i) ==
    LET closing == HeaderEnd(t, i)
        header == SubSeq(t, i + 2, closing - 1)
        afterColon == IF CharAt(t, closing + 2, ":") THEN closing + 3 ELSE closing + 2
        bodyStart == SkipSpaces(t, afterColon)
        bodyEnd == Min({q \in bodyStart..(Len(t) + 1) :
                           q = Len(t) + 1 \/ HeaderEnd(t, q) # 0})
        numbered == NumberHeaderMatch(header)
    IN  [section |-> [header |-> IF numbered # Null THEN numbered ELSE header,
                      paragraphs |-> Paragraphs(SubSeq(t, bodyStart, bodyEnd - 1)),
                      isNumberedHeader |-> numbered # Null],
         lastIndex |-> bodyEnd]

\* while ((match = sectionRegex.exec(text)) !== null), from position from
RECURSIVE Sections(_, _)
Sections(t, from) ==
    LET starts == {i \in from..Len(t) : HeaderEnd(t, i) # 0} IN
    IF starts = {} THEN <<>>
    ELSE LET m == SectionMatch(t, Min(starts)) IN
         <<m.section>> \o Sections(t, m.lastIndex)

\* ^ without the m flag: the start of the text only
LineStartOfText(t, i) == i = 1

\* ^ under the m flag
LineStart(t, i) == i = 1 \/ (i >= 2 /\ i <= Len(t) + 1 /\ ~IsDot(t[i - 1]))

\* one match of referenceRegex that starts at i, ok = FALSE when there is none
ReferenceMatch(t, i) ==
    LET digits == IF CharAt(t, i, "*") THEN i + 1 ELSE i
        afterDigits == SkipDigits(t, digits)
        colon == IF CharAt(t, afterDigits, "*") THEN afterDigits + 1 ELSE afterDigits
        afterSpaces == SkipSpaces(t, colon + 1)
        label == IF CharAt(t, afterSpaces, "*") THEN afterSpaces + 1 ELSE afterSpaces
        afterUrlWord == IF CharAt(t, label + 3, ":") THEN label + 4 ELSE label + 3
        scheme == IF WordAt(t, label, <<"u", "r", "l">>)
                  THEN SkipSpaces(t, afterUrlWord) ELSE label
        slashes == IF WordAt(t, scheme + 4, <<"s">>) THEN scheme + 5 ELSE scheme + 4
        host == slashes + 3
        urlEnd == SkipUrlChars(t, host)
        ok == /\ LineStart(t, i)
              /\ afterDigits > digits
              /\ CharAt(t, colon, ":")
              /\ WordAt(t, scheme, <<"h", "t", "t", "p">>)
              /\ WordAt(t, slashes, <<":", "/", "/">>)
              /\ urlEnd > host
    IN  [ok |-> ok,
         reference |-> IF ok
                       THEN [number |-> SubSeq(t, digits, afterDigits - 1),
                             url |-> SubSeq(t, scheme, urlEnd - 1)]
                       ELSE Null,
         lastIndex |-> IF ok /\ CharAt(t, urlEnd, "*") THEN urlEnd + 1 ELSE urlEnd]

\* while ((refMatch = referenceRegex.exec(text)) !== null), from position from
RECURSIVE References(_, _)
References(t, from) ==
    LET starts == {i \in from..Len(t) : ReferenceMatch(t, i).ok} IN
    IF starts = {} THEN <<>>
    ELSE LET m == ReferenceMatch(t, Min(starts)) IN
         <<m.reference>> \o References(t, m.lastIndex)

\* the first position from i on whose character is in cs, Len(t) + 1 if none
RECURSIVE FindChar(_, _, _)
FindChar(t, i, cs) ==
    IF i > Len(t) \/ t[i] \in cs THEN i ELSE FindChar(t, i + 1, cs)

\* the first position from i on that is neither / nor \
RECURSIVE SkipSlashes(_, _)
SkipSlashes(t, i) ==
    IF i <= Len(t) /\ t[i] \in {"/", "\\"} THEN SkipSlashes(t, i + 1) ELSE i

\* the last position of c in t, 0 if none
RECURSIVE LastIndexOf(_, _)
LastIndexOf(t, c) ==
    IF t = <<>> THEN 0
    ELSE IF t[Len(t)] = c THEN Len(t)
    ELSE LastIndexOf(SubSeq(t, 1, Len(t) - 1), c)

\* the value of the digits ds, capped above the largest port
RECURSIVE PortValue(_, _)
PortValue(ds, acc) ==
    IF ds = <<>> \/ acc > 65535 THEN acc
    ELSE PortValue(Tail(ds),
                   10 * acc + (CHOOSE n \in 0..9 :
                                   <<"0", "1", "2", "3", "4", "5", "6", "7", "8", "9">>[n + 1]
                                       = Head(ds)))

\* the labels of a host: what its dots separate
RECURSIVE Labels(_, _)
Labels(host, cur) ==
    IF host = <<>> THEN <<cur>>
    ELSE IF Head(host) = "." THEN <<cur>> \o Labels(Tail(host), <<>>)
    ELSE Labels(Tail(host), Append(cur, Head(host)))

\* the last label, a trailing dot apart, is a number: the host is read as an
\* IPv4 address
EndsInNumber(host) ==
    LET all == Labels(host, <<>>)
        parts == IF Len(all) > 1 /\ all[Len(all)] = <<>>
                 THEN SubSeq(all, 1, Len(all) - 1) ELSE all
        last == parts[Len(parts)]
    IN  last # <<>> /\ \A k \in 1..Len(last) : IsDigit(last[k])

\* new URL(url): the host and the port of the authority.  The URL is
\* rejected when the host is empty, when the port is not a number or is too
\* large, and when the host ends in a number without being an IPv4 address;
\* the host is put in lower case.
HostAndPort(host, port) ==
    IF \/ host = <<>>
       \/ \E k \in 1..Len(port) : ~IsDigit(port[k])
       \/ PortValue(port, 0) > 65535
       \/ EndsInNumber(host)
    THEN Null
    ELSE [k \in 1..Len(host) |-> Lower(host[k])]

\* new URL(url): the authority without the user information splits at its
\* first colon
HostOfHostport(hostport, portColon) ==
    HostAndPort(SubSeq(hostport, 1, portColon - 1),
                SubSeq(hostport, portColon + 1, Len(hostport)))

\* new URL(url): the user information ends at the last @ of the authority
HostOfAuthority(authority) ==
    HostOfHostport(SubSeq(authority, LastIndexOf(authority, "@") + 1, Len(authority)),
                   FindChar(SubSeq(authority, LastIndexOf(authority, "@") + 1,
                                   Len(authority)), 1, {":"}))

\* new URL(url): the authority starts at position start, after the slashes,
\* and ends where the path, the query or the fragment starts
Authority(url, start) ==
    SubSeq(url, start, FindChar(url, start, {"/", "\\", "?", "#"}) - 1)

\* new URL(url).hostname for a url that urlRegex or referenceRegex captured
\* (http:// or https://, then characters that are neither white space nor *),
\* Null when new URL throws.  Hosts in brackets, with percent signs or outside
\* ASCII, and IPv4 addresses that are valid, do not occur in the texts of the
\* model.
Hostname(url) ==
    HostOfAuthority(Authority(url, SkipSlashes(url, FindChar(url, 1, {":"}) + 1)))

\* getWebsiteName: hostname.replace(/^www\./, ""), the url when new URL throws
getWebsiteName(url) ==
    LET hostname == Hostname(url) IN
    IF hostname = Null THEN url
    ELSE IF Len(hostname) >= 4 /\ SubSeq(hostname, 1, 4) = <<"w", "w", "w", ".">>
         THEN SubSeq(hostname, 5, Len(hostname))
         ELSE hostname

\* urlRegex from (https?:\/\/[^\s*]+)\*? on: the scheme at scheme, :// at
\* slashes, the characters of the url up to urlEnd
UrlFromEnd(t, scheme, slashes, urlEnd) ==
    LET ok == /\ WordAt(t, scheme, <<"h", "t", "t", "p">>)
              /\ WordAt(t, slashes, <<":", "/", "/">>)
              /\ urlEnd > slashes + 3
    IN  [ok |-> ok,
         url |-> IF ok THEN SubSeq(t, scheme, urlEnd - 1) ELSE Null,
         lastIndex |-> IF ok /\ CharAt(t, urlEnd, "*") THEN urlEnd + 1 ELSE urlEnd]

UrlFromSlashes(t, scheme, slashes) ==
    UrlFromEnd(t, scheme, slashes, SkipUrlChars(t, slashes + 3))

UrlFromScheme(t, scheme) ==
    UrlFromSlashes(t, scheme,
                   IF WordAt(t, scheme + 4, <<"s">>) THEN scheme + 5 ELSE scheme + 4)

\* urlRegex from (?:url:?\s*)? on
UrlFromLabel(t, label) ==
    UrlFromScheme(t, IF WordAt(t, label, <<"u", "r", "l">>)
                     THEN SkipSpaces(t, IF CharAt(t, label + 3, ":")
                                        THEN label + 4 ELSE label + 3)
                     ELSE label)

\* urlRegex from (?:Source:\s*)? on
UrlFromSource(t, source) ==
    UrlFromLabel(t, IF WordAt(t, source, <<"s", "o", "u", "r", "c", "e", ":">>)
                    THEN SkipSpaces(t, source + 7) ELSE source)

\* one match of urlRegex that starts at i, ok = FALSE when there is none
UrlMatch(t, i) == UrlFromSource(t, IF CharAt(t, i, "*") THEN i + 1 ELSE i)

\* a part of what replaceUrlsWithLinks returns: a string, or an a element
TextPart(text) == [link |-> FALSE, href |-> <<>>, text |-> text]

LinkPart(url) == [link |-> TRUE, href |-> url, text |-> getWebsiteName(url)]

\* the loop of replaceUrlsWithLinks from position lastIndex on, and the push
\* of the rest of the text after it
RECURSIVE UrlParts(_, _)

\* one turn of the loop, for the match m found at index
UrlPartsAt(t, lastIndex, index, m) ==
    (IF index > lastIndex
     THEN <<TextPart(SubSeq(t, lastIndex, index - 1))>> ELSE <<>>)
    \o <<LinkPart(m.url)>>
    \o UrlParts(t, m.lastIndex)

UrlParts(t, lastIndex) ==
    LET starts == {i \in lastIndex..Len(t) : UrlMatch(t, i).ok} IN
    IF starts = {}
    THEN IF lastIndex <= Len(t) THEN <<TextPart(SubSeq(t, lastIndex, Len(t)))>> ELSE <<>>
    ELSE UrlPartsAt(t, lastIndex, Min(starts), UrlMatch(t, Min(starts)))

replaceUrlsWithLinks(text) == UrlParts(text, 1)

\* the first position from i on whose character is a line terminator
RECURSIVE LineEnd(_, _)
LineEnd(t, i) ==
    IF i <= Len(t) /\ IsDot(t[i]) THEN LineEnd(t, i + 1) ELSE i

\* content.match(/^(.+?):\s*(.+)$/): the first colon that has a character
\* before it and one after it; ok = FALSE when there is none
ColonMatch(content) ==
    LET colons == {n \in 2..(Len(content) - 1) : content[n] = ":"}
        colon == Min(colons)
        afterSpaces == SkipSpaces(content, colon + 1)
    IN  IF colons = {} THEN [ok |-> FALSE, title |-> Null, description |-> Null]
        ELSE [ok |-> TRUE,
              title |-> SubSeq(content, 1, colon - 1),
              description |-> IF afterSpaces <= Len(content)
                              THEN SubSeq(content, afterSpaces, Len(content))
                              ELSE SubSeq(content, Len(content), Len(content))]

\* the li pushed for a match: its key, its strong title if the content has
\* one, and the parts of the description or of the content.  content is the
\* content the li was made from.
ListItemOf(number, content, colonMatch) ==
    IF colonMatch.ok
    THEN [number |-> number, content |-> content, title |-> colonMatch.title,
          parts |-> replaceUrlsWithLinks(colonMatch.description)]
    ELSE [number |-> number, content |-> content, title |-> Null,
          parts |-> replaceUrlsWithLinks(content)]

ListItem(number, content) == ListItemOf(number, content, ColonMatch(content))

\* where the content of a match of listItemRegex at i starts, 0 when there is
\* no match: dot is the position after the digits, and \s+ gives white space
\* back when the content would be empty
ContentStart(p, i, dot) ==
    LET starts == {c \in (dot + 2)..SkipSpaces(p, dot + 1) :
                      c <= Len(p) /\ IsDot(p[c])}
    IN  IF LineStart(p, i) /\ dot > i /\ CharAt(p, dot, ".") /\ starts # {}
        THEN CHOOSE c \in starts : \A d \in starts : d <= c
        ELSE 0

\* the match of listItemRegex at i whose content is from contentStart to
\* contentEnd - 1
ListItemAt(p, i, dot, contentStart, contentEnd) ==
    [ok |-> contentStart # 0,
     item |-> IF contentStart # 0
              THEN ListItem(SubSeq(p, i, dot - 1),
                            SubSeq(p, contentStart, contentEnd - 1))
              ELSE Null,
     lastIndex |-> IF contentStart # 0 THEN contentEnd ELSE i]

ListItemFrom(p, i, dot, contentStart) ==
    ListItemAt(p, i, dot, contentStart, LineEnd(p, contentStart))

\* one match of listItemRegex that starts at i, ok = FALSE when there is none
ListItemMatch(p, i) ==
    ListItemFrom(p, i, SkipDigits(p, i), ContentStart(p, i, SkipDigits(p, i)))

\* while ((match = listItemRegex.exec(paragraph)) !== null), from position from
RECURSIVE ListItems(_, _)

\* one turn of the loop, for the match m
ListItemsAt(p, m) == <<m.item>> \o ListItems(p, m.lastIndex)

ListItems(p, from) ==
    LET starts == {i \in from..Len(p) : ContentStart(p, i, SkipDigits(p, i)) # 0} IN
    IF starts = {} THEN <<>>
    ELSE ListItemsAt(p, ListItemMatch(p, Min(starts)))

\* what parseNumberedList returns when it returns null
NoList == [ol |-> FALSE, items |-> <<>>]

\* parseNumberedList: the ol of the items, null when there is none
ListOf(items) == IF Len(items) = 0 THEN NoList ELSE [ol |-> TRUE, items |-> items]

parseNumberedList(paragraph) == ListOf(ListItems(paragraph, 1))

\* what Formatter computes before it renders
Formatter(text) ==
    [sections |-> Sections(text, 1), references |-> References(text, 1)]

\* the children of the div a section renders: the h2 of a header that is not
\* numbered, then one child per paragraph: the ol of parseNumberedList when it
\* returned one, and otherwise a p with the parts of replaceUrlsWithLinks that
\* starts with the header when the header is numbered.  text is the paragraph
\* the child was made from.
ParagraphBlock(section, para, numberedList) ==
    IF numberedList.ol
    THEN [kind |-> "ol", header |-> Null, text |-> para,
          items |-> numberedList.items, parts |-> <<>>]
    ELSE [kind |-> "paragraph",
          header |-> IF section.isNumberedHeader THEN section.header ELSE Null,
          text |-> para,
          items |-> <<>>,
          parts |-> replaceUrlsWithLinks(para)]

RECURSIVE ParagraphBlocks(_, _)
ParagraphBlocks(section, i) ==
    IF i > Len(section.paragraphs) THEN <<>>
    ELSE <<ParagraphBlock(section, section.paragraphs[i],
                          parseNumberedList(section.paragraphs[i]))>>
         \o ParagraphBlocks(section, i + 1)

SectionBlocks(section) ==
    (IF ~section.isNumberedHeader
     THEN <<[kind |-> "h2", header |-> section.header, text |-> <<>>,
             items |-> <<>>, parts |-> <<>>]>>
     ELSE <<>>)
    \o ParagraphBlocks(section, 1)

RECURSIVE AllSectionBlocks(_)
AllSectionBlocks(sections) ==
    IF sections = <<>> THEN <<>>
    ELSE SectionBlocks(Head(sections)) \o AllSectionBlocks(Tail(sections))

\* what Formatter returns for the sections and the references it computed:
\* the blocks of the sections, then the References block
RenderOf(f) ==
    [rendered |-> TRUE,
     sections |-> f.sections,
     blocks |-> AllSectionBlocks(f.sections),
     references |-> f.references,
     referenceLinks |-> [k \in 1..Len(f.references) |->
                            LinkPart(f.references[k].url)]]

\* what Formatter computes and returns
Render(text) == RenderOf(Formatter(text))

\* Formatter has not been rendered
NotRendered ==
    [rendered |-> FALSE, sections |-> <<>>, blocks |-> <<>>, references |-> <<>>,
     referenceLinks |-> <<>>]

\* the render shows nothing
EmptyRender(r) == r.blocks = <<>> /\ r.references = <<>>

-----------------------------------------------------------------------------
(* The texts Formatter is given *)

\* pieces a text is put together from
MaxFrags == 3

ExampleText ==
    <<"*", "*", "I", "n", "t", "r", "o", "*", "*", ":", " ", "H", "e", "l", "l", "o", " ", "w", "o", "r", "l", "d", ".", " ", "1", ":", " ", "u", "r", "l", ":", " ", "h", "t", "t", "p", ":", "/", "/", "e", "x", "a", "m", "p", "l", "e", ".", "c", "o", "m", "/", "p", "a", "g", "e">>

ExampleTextOnLine ==
    <<"*", "*", "I", "n", "t", "r", "o", "*", "*", ":", " ", "H", "e", "l", "l", "o", " ", "w", "o", "r", "l", "d", ".", "\n", "1", ":", " ", "u", "r", "l", ":", " ", "h", "t", "t", "p", ":", "/", "/", "e", "x", "a", "m", "p", "l", "e", ".", "c", "o", "m", "/", "p", "a", "g", "e">>

ExampleUrl ==
    <<"h", "t", "t", "p", ":", "/", "/", "e", "x", "a", "m", "p", "l", "e", ".", "c", "o", "m", "/", "p", "a", "g", "e">>

RefA == <<"1", ":", " ", "h", "t", "t", "p", ":", "/", "/", "e">>

RefB == <<"*", "2", "*", ":", " ", "u", "r", "l", ":", " ", "H", "T", "T", "P", "S", ":", "/", "/", "f", "*">>

\* a header token
Hdr == <<"*", "*", "H", "*", "*">>

\* the start of a list item
ItemStart == <<"1", ".", " ">>

\* a URL on its own
BareUrl == <<"h", "t", "t", "p", "s", ":", "/", "/", "w", "w", "w", ".", "g", ".", "i", "o", "/", "x">>

\* the text of the example of two sections
SummaryRisksText ==
    <<"*", "*", "S", "u", "m", "m", "a", "r", "y", "*", "*", "\n", "\n", "L", "i", "n", "e", " ", "o", "n", "e", ".", "\n", "\n", "*", "*", "R", "i", "s", "k", "s", "*", "*", "\n", "\n", "L", "i", "n", "e", " ", "t", "w", "o", ".">>

\* a section whose paragraph is the two list lines "1. A: b" and "2. c"
ListExampleText ==
    <<"*", "*", "H", "*", "*", "1", ".", " ", "A", ":", " ", "b", "\n", "2", ".", " ", "c">>

\* a section whose paragraph is the two lines "1." and "a"
DotLineText == <<"*", "*", "H", "*", "*", "1", ".", "\n", "a">>

Fragments ==
    {<<"*", "*">>, <<"a">>, <<" ">>, <<"\n">>, <<":">>, <<"1">>, <<".">>, RefA, RefB,
     Hdr, ItemStart, BareUrl, <<"\n", "\n">>}

RECURSIVE Concats(_)
Concats(n) ==
    IF n = 0 THEN {<<>>}
    ELSE LET shorter == Concats(n - 1) IN
         shorter \cup {a \o f : a \in shorter, f \in Fragments}

\* a text starts with a header token or without one
Prefixes == {<<>>, Hdr}

FormatInputs ==
    {p \o b : p \in Prefixes, b \in Concats(MaxFrags)}
    \cup {ExampleText, ExampleTextOnLine, ErrorText, FallbackText,
          SummaryRisksText, ListExampleText, DotLineText}

-----------------------------------------------------------------------------
(* The program state as one record, so that a handler, the renders it causes
   and the effects they run compose as the code runs them. *)

World ==
    [messages |-> messages, input |-> input, isTyping |-> isTyping,
     isWaiting |-> isWaiting, isUpdating |-> isUpdating,
     typingMessage |-> typingMessage, isCanceled |-> isCanceled,
     cancelTypingRef |-> cancelTypingRef, inflight |-> inflight,
     mounted |-> mounted, key |-> key, displayedText |-> displayedText,
     typingInterval |-> typingInterval, staleInterval |-> staleInterval,
     hasCleanup |-> hasCleanup, queue |-> queue, closures |-> closures,
     intervals |-> intervals, calls |-> calls, lastOp |-> lastOp,
     dirty |-> FALSE]

\* setInterval returns an id no live reference holds
FreshId(w) ==
    CHOOSE i \in 1..(Cardinality(DOMAIN w.closures) + 3) :
        /\ i \notin DOMAIN w.closures
        /\ i \notin w.intervals
        /\ i # w.typingInterval
        /\ i # w.staleInterval
        /\ \A j \in 1..(i - 1) :
               \/ j \in DOMAIN w.closures
               \/ j \in w.intervals
               \/ j = w.typingInterval
               \/ j = w.staleInterval

\* clearInterval(id); an id that is not set is ignored
ClearInterval(w, id) == [w EXCEPT !.intervals = @ \ {id}]

\* handleTypingComplete, as the closure over typingMessage = content
HandleTypingComplete(w, content) ==
    [w EXCEPT !.isTyping = FALSE,
              !.messages = Append(@, BotMessage(content)),
              !.typingMessage = Null,
              !.calls = @ + 1,
              !.dirty = TRUE]

\* an updater that appends the character and leaves currentIndex as it is
TickUpdaterRepeating(w, id) ==
    LET c == w.closures[id] IN
    IF c.currentIndex < Len(c.text)
    THEN [w EXCEPT !.displayedText = Append(@, c.text[c.currentIndex + 1])]
    ELSE HandleTypingComplete(ClearInterval(w, w.typingInterval), c.text)

\* the updater the interval callback gives to setDisplayedText, applied to prev
TickUpdater(w, id) ==
    LET c == w.closures[id] IN
    IF c.currentIndex < Len(c.text)
    THEN [w EXCEPT !.displayedText = Append(@, c.text[c.currentIndex + 1]),
                   !.closures[id].currentIndex = @ + 1]
    ELSE HandleTypingComplete(ClearInterval(w, w.typingInterval), c.text)

ApplyUpdate(w, u) ==
    CASE u.kind = "tick" -> TickUpdater(w, u.id)
      [] u.kind = "reset" -> [w EXCEPT !.displayedText = <<>>]
      [] u.kind = "keep" -> w

\* a render of TypingMessage applies the queued updates in order
RECURSIVE ApplyQueue(_, _)
ApplyQueue(w, q) ==
    IF q = <<>> THEN w ELSE ApplyQueue(ApplyUpdate(w, Head(q)), Tail(q))

RenderTypingMessage(w) == [ApplyQueue(w, w.queue) EXCEPT !.queue = <<>>]

\* a cleanup that leaves the interval set
EffectCleanupLeaving(w) == [w EXCEPT !.hasCleanup = FALSE]

\* the function the effect returned, if it returned one
EffectCleanup(w) ==
    IF w.hasCleanup
    THEN [ClearInterval(w, w.typingInterval) EXCEPT !.hasCleanup = FALSE]
    ELSE w

\* the body of the effect of TypingMessage, for the props text and isCanceled
EffectBody(w, text, canceled) ==
    IF ~Truthy(text) \/ canceled
    THEN [w EXCEPT !.queue = Append(@, [kind |-> "keep", id |-> 0]),
                   !.hasCleanup = FALSE]
    ELSE LET id == FreshId(w) IN
         [w EXCEPT !.queue = Append(@, [kind |-> "reset", id |-> 0]),
                   !.closures = [i \in DOMAIN @ \cup {id} |->
                                    IF i = id
                                    THEN [text |-> text, currentIndex |-> 0]
                                    ELSE @[i]],
                   !.intervals = @ \cup {id},
                   !.typingInterval = id,
                   !.cancelTypingRef = "live",
                   !.hasCleanup = TRUE]

RunEffect(w, text, canceled) == EffectBody(EffectCleanup(w), text, canceled)

\* an instance removed without its cleanup
UnmountLeaving(w) ==
    [w EXCEPT !.mounted = FALSE,
              !.queue = <<>>,
              !.displayedText = <<>>,
              !.hasCleanup = FALSE,
              !.staleInterval = IF w.cancelTypingRef = "live"
                                THEN w.typingInterval ELSE @,
              !.cancelTypingRef = IF @ = "live" THEN "stale" ELSE @,
              !.typingInterval = 0]

\* the instance is removed: its cleanup runs, its queued updates are dropped
Unmount(w) ==
    LET c == EffectCleanup(w) IN
    [c EXCEPT !.mounted = FALSE,
              !.queue = <<>>,
              !.displayedText = <<>>,
              !.staleInterval = IF c.cancelTypingRef = "live"
                                THEN c.typingInterval ELSE @,
              !.cancelTypingRef = IF @ = "live" THEN "stale" ELSE @,
              !.typingInterval = 0]

\* a new instance: useState(""), useRef(null), then the effect
Mount(w, text, canceled) ==
    EffectBody([w EXCEPT !.mounted = TRUE,
                         !.key = Len(w.messages),
                         !.displayedText = <<>>,
                         !.typingInterval = 0,
                         !.queue = <<>>,
                         !.hasCleanup = FALSE],
               text, canceled)

\* one render of App and its commit:
\* {typingMessage && <TypingMessage key={messages.length} .../>}
RenderOnce(w) ==
    LET text == w.typingMessage
        canceled == w.isCanceled
        show == Truthy(text)
    IN  IF w.mounted /\ show /\ w.key = Len(w.messages)
        THEN RunEffect(RenderTypingMessage(w), text, canceled)
        ELSE LET u == IF w.mounted THEN Unmount(w) ELSE w IN
             IF show THEN Mount(u, text, canceled) ELSE u

\* App renders again when a render called handleTypingComplete
RenderApp(w) ==
    LET w1 == RenderOnce([w EXCEPT !.dirty = FALSE]) IN
    IF w1.dirty THEN RenderOnce([w1 EXCEPT !.dirty = FALSE]) ELSE w1

\* closures nothing refers to any more are gone
Collect(w) ==
    LET live == w.intervals \cup {w.queue[i].id : i \in 1..Len(w.queue)} IN
    [w EXCEPT !.closures = [i \in (DOMAIN @) \cap live |-> @[i]]]

Commit(w, op) ==
    LET c == Collect(w) IN
    /\ messages' = c.messages
    /\ input' = c.input
    /\ isTyping' = c.isTyping
    /\ isWaiting' = c.isWaiting
    /\ isUpdating' = c.isUpdating
    /\ typingMessage' = c.typingMessage
    /\ isCanceled' = c.isCanceled
    /\ cancelTypingRef' = c.cancelTypingRef
    /\ inflight' = c.inflight
    /\ mounted' = c.mounted
    /\ key' = c.key
    /\ displayedText' = c.displayedText
    /\ typingInterval' = c.typingInterval
    /\ staleInterval' = c.staleInterval
    /\ hasCleanup' = c.hasCleanup
    /\ queue' = c.queue
    /\ closures' = c.closures
    /\ intervals' = c.intervals
    /\ calls' = c.calls
    /\ lastOp' = op
    /\ UNCHANGED fmtVars

-----------------------------------------------------------------------------
(* Handlers of App *)

\* sendMessage, up to the await
sendMessage(w) ==
    IF Trim(w.input) = <<>> \/ w.isTyping
    THEN w
    ELSE RenderApp([w EXCEPT !.messages = Append(@, UserMessage(w.input)),
                             !.input = <<>>,
                             !.isWaiting = TRUE,
                             !.inflight = @ + 1])

\* sendMessage after the await, the request having returned response
ChatResolved(w, response) ==
    LET botResponse == IF Truthy(response) THEN response ELSE FallbackText IN
    RenderApp([w EXCEPT !.isWaiting = FALSE,
                        !.isTyping = TRUE,
                        !.typingMessage = botResponse,
                        !.isCanceled = FALSE,
                        !.inflight = @ - 1,
                        !.calls = 0])

\* a catch block that hands the error text to the reveal instead
ChatRejectedRevealing(w) ==
    RenderApp([w EXCEPT !.isWaiting = FALSE,
                        !.isTyping = TRUE,
                        !.typingMessage = ErrorText,
                        !.isCanceled = FALSE,
                        !.inflight = @ - 1,
                        !.calls = 0])

\* sendMessage after the await, the request having failed: the catch block
ChatRejected(w) ==
    RenderApp([w EXCEPT !.isWaiting = FALSE,
                        !.messages = Append(@, BotMessage(ErrorText)),
                        !.inflight = @ - 1])

cancelTyping(w) ==
    IF w.cancelTypingRef # "null"
    THEN LET id == IF w.cancelTypingRef = "live"
                   THEN w.typingInterval ELSE w.staleInterval IN
         RenderApp([ClearInterval(w, id) EXCEPT !.isTyping = FALSE,
                                                !.isCanceled = TRUE])
    ELSE w

\* isTyping ? cancelTyping() : sendMessage()
Submit(w) == IF w.isTyping THEN cancelTyping(w) ELSE sendMessage(w)

SubmitOp == IF isTyping THEN "cancelTyping" ELSE "sendMessage"

isSendDisabled == ~isTyping /\ (Trim(input) = <<>> \/ isWaiting \/ isUpdating)

\* the textarea has disabled={isWaiting || isUpdating}
TextareaDisabled == isWaiting \/ isUpdating

\* Clear and Update Data have disabled={isTyping || isWaiting || isUpdating}
HeaderDisabled == isTyping \/ isWaiting \/ isUpdating

\* the message list is kept within the bound of the model
Room == isTyping \/ Len(messages) < MaxMessages

-----------------------------------------------------------------------------
(* Actions *)

\* onChange of the textarea
EditInput ==
    /\ ~TextareaDisabled
    /\ \E v \in Inputs \ {input} :
           Commit(RenderApp([World EXCEPT !.input = v]), "setInput")

\* onClick of the send / stop button
ClickSend ==
    /\ ~isSendDisabled
    /\ Room
    /\ Commit(Submit(World), SubmitOp)

\* handleKeyDown, Enter without Shift
PressEnter ==
    /\ ~TextareaDisabled
    /\ Room
    /\ Commit(Submit(World), SubmitOp)

\* onSubmit of the form
SubmitForm ==
    /\ Room
    /\ Commit(Submit(World), SubmitOp)

\* axios.post("/api/chat") returns
ChatResponse ==
    /\ inflight > 0
    /\ \E r \in Responses : Commit(ChatResolved(World, r), "response")

\* axios.post("/api/chat") throws
ChatError ==
    /\ inflight > 0
    /\ Commit(ChatRejected(World), "error")

\* onClick of Clear
ClearMessages ==
    /\ ~HeaderDisabled
    /\ Commit(RenderApp([World EXCEPT !.messages = <<>>]), "clear")

\* onClick of Update Data
HandleUpdateData ==
    /\ ~HeaderDisabled
    /\ Commit(RenderApp([World EXCEPT !.isUpdating = TRUE]), "update")

\* the update is over: the post failed, or the poll saw it end or failed
UpdateFinished ==
    /\ isUpdating
    /\ Commit(RenderApp([World EXCEPT !.isUpdating = FALSE]), "updated")

QueuedTicks == Cardinality({i \in 1..Len(queue) : queue[i].kind = "tick"})

\* the callback of a set interval: it queues the updater
Tick ==
    /\ QueuedTicks < MaxQueue
    /\ \E id \in intervals :
           Commit(IF mounted
                  THEN [World EXCEPT !.queue = Append(@, [kind |-> "tick", id |-> id])]
                  ELSE World,
                  "tick")

\* React renders TypingMessage for its queued updates
Flush ==
    /\ mounted
    /\ queue # <<>>
    /\ LET w == RenderTypingMessage(World) IN
       Commit(IF w.dirty THEN RenderApp(w) ELSE w, "render")

AppNext ==
    \/ EditInput
    \/ ClickSend
    \/ PressEnter
    \/ SubmitForm
    \/ ChatResponse
    \/ ChatError
    \/ ClearMessages
    \/ HandleUpdateData
    \/ UpdateFinished
    \/ Tick
    \/ Flush

-----------------------------------------------------------------------------
(* Specifications *)

StateIs(w) ==
    /\ messages = w.messages
    /\ input = w.input
    /\ isTyping = w.isTyping
    /\ isWaiting = w.isWaiting
    /\ isUpdating = w.isUpdating
    /\ typingMessage = w.typingMessage
    /\ isCanceled = w.isCanceled
    /\ cancelTypingRef = w.cancelTypingRef
    /\ inflight = w.inflight
    /\ mounted = w.mounted
    /\ key = w.key
    /\ displayedText = w.displayedText
    /\ typingInterval = w.typingInterval
    /\ staleInterval = w.staleInterval
    /\ hasCleanup = w.hasCleanup
    /\ queue = w.queue
    /\ closures = w.closures
    /\ intervals = w.intervals
    /\ calls = w.calls
    /\ lastOp = w.lastOp

\* App before its first event
InitialWorld ==
    [messages |-> <<>>, input |-> <<>>, isTyping |-> FALSE,
     isWaiting |-> FALSE, isUpdating |-> FALSE, typingMessage |-> Null,
     isCanceled |-> FALSE, cancelTypingRef |-> "null", inflight |-> 0,
     mounted |-> FALSE, key |-> 0, displayedText |-> <<>>,
     typingInterval |-> 0, staleInterval |-> 0, hasCleanup |-> FALSE,
     queue |-> <<>>, closures |-> <<>>, intervals |-> {}, calls |-> 0,
     lastOp |-> "init", dirty |-> FALSE]

Init ==
    /\ StateIs(InitialWorld)
    /\ fmtText = <<>>
    /\ fmtOut = NotRendered

Next == AppNext

Spec == Init /\ [][Next]_vars

\* the texts TypingMessage is started with as a component of its own
EngineTexts == {<<>>, <<"a">>, <<"a", "b">>}

\* TypingMessage mounted with the prop text, its effect run once
InitEngine ==
    /\ \E t \in EngineTexts :
           StateIs(Collect(Mount([InitialWorld EXCEPT !.isTyping = TRUE,
                                                      !.typingMessage = t],
                                 t, FALSE)))
    /\ fmtText = <<>>
    /\ fmtOut = NotRendered

SpecEngine == InitEngine /\ [][Next]_vars

\* the timer keeps firing and React renders what is queued
FairSpec == Spec /\ WF_vars(Tick) /\ WF_vars(Flush)

\* Formatter is rendered with the prop text
FormatText ==
    /\ ~fmtOut.rendered
    /\ fmtOut' = Render(fmtText)
    /\ UNCHANGED fmtText
    /\ UNCHANGED appVars

InitFormat ==
    /\ StateIs(InitialWorld)
    /\ fmtText \in FormatInputs
    /\ fmtOut = NotRendered

FormatNext == FormatText

SpecFormat == InitFormat /\ [][FormatNext]_vars

-----------------------------------------------------------------------------
(* The claims *)

\* C1: onComplete is called at most once for a reveal session, so at most one
\* finalized bot message is appended for it.
C1_CompletionAtMostOnce == calls <= 1

\* C2: while a reveal is running, the length of the displayed prefix never
\* decreases from one step to the next.
C2_RevealedLengthMonotone ==
    [][(isTyping /\ isTyping') => Len(displayedText') >= Len(displayedText)]_vars

C4_CancelledLengthPermanent ==
    [][(isCanceled /\ isCanceled') =>
          (Len(displayedText') = Len(displayedText) /\ intervals' = {})]_vars

\* C5: after a cancel has been accepted, onComplete has not been called for the
\* session and no bot message has been appended for it.
C5_CancelIsTerminal == isCanceled => calls = 0

\* C6: a reveal that has been started is eventually completed, unless it is
\* cancelled.
C6_EventuallyCompleted == isTyping ~> (calls > 0 \/ isCanceled)

\* C7: at most one interval is set; at most one request is awaited and none
\* while a reveal is running; no step taken while a reveal is running or a
\* response is awaited issues a request or changes the text being revealed;
\* and a step that sets an interval leaves no other interval set.
C7_SessionsNeverConcurrent ==
    /\ [](/\ Cardinality(intervals) <= 1
          /\ inflight <= 1
          /\ (isTyping => inflight = 0))
    /\ [][/\ (isTyping \/ isWaiting) => inflight' <= inflight
          /\ (isTyping /\ isTyping') => typingMessage' = typingMessage
          /\ \A id \in intervals' \ intervals : intervals' = {id}]_vars

\* C7, its case: a second reveal is running, its interval the only one set
C7_Witness ==
    /\ lastOp = "response"
    /\ isTyping
    /\ Len(messages) >= 2
    /\ Cardinality(intervals) = 1

\* C8, as the code has it: when the request fails, the error text is appended
\* to the messages at once as a finalized bot message, and no reveal is started
\* for it.
C8_ErrorAppendedDirectly ==
    [][lastOp' = "error" =>
          /\ messages' = Append(messages, BotMessage(ErrorText))
          /\ typingMessage' = typingMessage
          /\ ~isTyping'
          /\ intervals' = {}]_vars

\* C8, its case: the request has failed and the error message is the last one
C8_Witness ==
    /\ lastOp = "error"
    /\ messages # <<>>
    /\ messages[Len(messages)] = BotMessage(ErrorText)
    /\ ~isTyping

\* C8 as stated: when the request fails, a reveal is started for the error text
\* and nothing is appended before it completes.
C8_ErrorIsRevealed ==
    [][lastOp' = "error" =>
          /\ isTyping'
          /\ typingMessage' = ErrorText
          /\ messages' = messages]_vars

\* the text has no header token
NoHeaderToken(t) == \A i \in 1..Len(t) : HeaderEnd(t, i) = 0

\* C9: the render of a text that is not empty is not empty, and a text with no
\* header token is rendered as one paragraph with no header, holding the text.
C9_NoHeaderSingleParagraph ==
    (fmtOut.rendered /\ fmtText # <<>>) =>
        /\ ~EmptyRender(fmtOut)
        /\ NoHeaderToken(fmtText) =>
               /\ Len(fmtOut.blocks) = 1
               /\ fmtOut.blocks[1].kind = "paragraph"
               /\ fmtOut.blocks[1].header = Null
               /\ fmtOut.blocks[1].text = fmtText

\* the lines of t
RECURSIVE Lines(_, _)
Lines(t, cur) ==
    IF t = <<>> THEN <<cur>>
    ELSE IF Head(t) = "\n" THEN <<cur>> \o Lines(Tail(t), <<>>)
    ELSE Lines(Tail(t), Append(cur, Head(t)))

\* the reference entries that are a line of their own start
RECURSIVE LineEntries(_)
LineEntries(ls) ==
    IF ls = <<>> THEN <<>>
    ELSE (IF ReferenceMatch(Head(ls), 1).ok
          THEN <<ReferenceMatch(Head(ls), 1).reference>> ELSE <<>>)
         \o LineEntries(Tail(ls))

\* a is b with some elements left out
RECURSIVE IsSubsequence(_, _)
IsSubsequence(a, b) ==
    IF a = <<>> THEN TRUE
    ELSE IF b = <<>> THEN FALSE
    ELSE IF Head(a) = Head(b) THEN IsSubsequence(Tail(a), Tail(b))
    ELSE IsSubsequence(a, Tail(b))

\* C10, as the code has it: an entry is a reference only where it starts a line.
\* The example text, whose entry follows the prose on the same line, yields no
\* reference; with the entry on a line of its own it yields the one reference
\* of number 1; and the entries that start a line are all returned, in order.
C10_ReferencesLineAnchored ==
    fmtOut.rendered =>
        /\ fmtText = ExampleText => fmtOut.references = <<>>
        /\ fmtText = ExampleTextOnLine =>
               fmtOut.references = <<[number |-> <<"1">>, url |-> ExampleUrl]>>
        /\ IsSubsequence(LineEntries(Lines(fmtText, <<>>)), fmtOut.references)

\* C10, its case: two entries on two lines, both returned
C10_Witness ==
    /\ fmtOut.rendered
    /\ fmtText = RefA \o <<"\n">> \o RefB
    /\ Len(fmtOut.references) = 2

\* C10 as stated: the example text yields the one reference of number 1.
C10_ExampleYieldsReference ==
    (fmtOut.rendered /\ fmtText = ExampleText) =>
        fmtOut.references = <<[number |-> <<"1">>, url |-> ExampleUrl]>>

\* the characters of t that are not white space
NonSpace(t) == SelectSeq(t, LAMBDA c : ~IsSpace(c))

\* the paragraphs of the sections, one after the other
RECURSIVE JoinAll(_)
JoinAll(ps) == IF ps = <<>> THEN <<>> ELSE Head(ps) \o JoinAll(Tail(ps))

RECURSIVE AllParagraphText(_)
AllParagraphText(sections) ==
    IF sections = <<>> THEN <<>>
    ELSE JoinAll(Head(sections).paragraphs) \o AllParagraphText(Tail(sections))

\* t from position i on without its header tokens: a token is **...** with the
\* colon that follows it, the tokens taken from left to right
RECURSIVE NonHeaderContent(_, _)
NonHeaderContent(t, i) ==
    IF i > Len(t) THEN <<>>
    ELSE IF HeaderEnd(t, i) # 0
         THEN NonHeaderContent(t, IF CharAt(t, HeaderEnd(t, i) + 2, ":")
                                  THEN HeaderEnd(t, i) + 3
                                  ELSE HeaderEnd(t, i) + 2)
         ELSE <<t[i]>> \o NonHeaderContent(t, i + 1)

\* C11: the paragraphs of the sections, taken in order, hold every character
\* of the text that is neither in a header token nor white space, the text
\* before the first header token included.
C11_ParagraphsKeepContent ==
    fmtOut.rendered =>
        NonSpace(AllParagraphText(fmtOut.sections)) =
            NonSpace(NonHeaderContent(fmtText, 1))

\* the first position from i on where a header token starts, Len(t) + 1 if none
RECURSIVE NextToken(_, _)
NextToken(t, i) ==
    IF i > Len(t) \/ HeaderEnd(t, i) # 0 THEN i ELSE NextToken(t, i + 1)

\* the header tokens of t from position i on, from left to right, each with
\* the text between it (and its colon) and the next token
RECURSIVE TokensAndBodies(_, _)
TokensAndBodies(t, i) ==
    LET start == NextToken(t, i)
        closing == HeaderEnd(t, start)
        after == IF CharAt(t, closing + 2, ":") THEN closing + 3 ELSE closing + 2
        next == NextToken(t, after)
    IN  IF start > Len(t) THEN <<>>
        ELSE <<[token |-> SubSeq(t, start + 2, closing - 1),
                body |-> SubSeq(t, after, next - 1)]>>
             \o TokensAndBodies(t, next)

\* s has two line feeds in a row
HasBlankLine(s) == \E i \in 1..(Len(s) - 1) : s[i] = "\n" /\ s[i + 1] = "\n"

\* h is the end of token, what precedes it being digits, a dot and white space
IsNumberedSuffix(h, token) ==
    \E d \in 2..Len(token) :
        /\ \A k \in 1..(d - 1) : IsDigit(token[k])
        /\ token[d] = "."
        /\ \E s \in (d + 1)..Len(token) :
               /\ \A k \in (d + 1)..(s - 1) : IsSpace(token[k])
               /\ h = SubSeq(token, s, Len(token))

SummaryRisksSections ==
    <<[header |-> <<"S", "u", "m", "m", "a", "r", "y">>,
       paragraphs |-> <<<<"L", "i", "n", "e", " ", "o", "n", "e", ".">>>>,
       isNumberedHeader |-> FALSE],
      [header |-> <<"R", "i", "s", "k", "s">>,
       paragraphs |-> <<<<"L", "i", "n", "e", " ", "t", "w", "o", ".">>>>,
       isNumberedHeader |-> FALSE]>>

\* C12: there is one section for each header token, in the order of the
\* tokens; its header is the token (without its number when it has one), and
\* its paragraphs, in order, hold the text between the token and the next
\* token or the end of the text: none is empty, none holds a blank line.  The
\* example text yields the two sections Summary and Risks.
C12_SectionsLazyInOrder ==
    fmtOut.rendered =>
        LET expected == TokensAndBodies(fmtText, 1) IN
        /\ Len(fmtOut.sections) = Len(expected)
        /\ \A k \in 1..Len(expected) :
               LET section == fmtOut.sections[k] IN
               /\ IF section.isNumberedHeader
                  THEN IsNumberedSuffix(section.header, expected[k].token)
                  ELSE section.header = expected[k].token
               /\ NonSpace(JoinAll(section.paragraphs)) = NonSpace(expected[k].body)
               /\ \A j \in 1..Len(section.paragraphs) :
                      /\ section.paragraphs[j] # <<>>
                      /\ ~HasBlankLine(section.paragraphs[j])
        /\ fmtText = SummaryRisksText => fmtOut.sections = SummaryRisksSections

\* C12, its case: the example text has been given and has its two sections
C12_Witness ==
    /\ fmtOut.rendered
    /\ fmtText = SummaryRisksText
    /\ Len(fmtOut.sections) = 2

\* a line of the form "<digits>. ...": digits, a dot, white space, and then a
\* remainder that starts at position r of the line
ListLineRemainder(line) ==
    LET dot == SkipDigits(line, 1)
        r == SkipSpaces(line, dot + 1)
    IN  IF dot > 1 /\ CharAt(line, dot, ".") /\ r > dot + 1 /\ r <= Len(line)
        THEN r ELSE 0

\* for each line of that form, in line order, its digits and its remainder
RECURSIVE ListLines(_)
ListLines(ls) ==
    IF ls = <<>> THEN <<>>
    ELSE LET r == ListLineRemainder(Head(ls)) IN
         (IF r # 0
          THEN <<[number |-> SubSeq(Head(ls), 1, SkipDigits(Head(ls), 1) - 1),
                  remainder |-> SubSeq(Head(ls), r, Len(Head(ls)))]>>
          ELSE <<>>)
         \o ListLines(Tail(ls))

\* what is rendered for the example of two list lines
ListExampleBlocks ==
    <<[kind |-> "h2", header |-> <<"H">>, text |-> <<>>, items |-> <<>>,
       parts |-> <<>>],
      [kind |-> "ol", header |-> Null,
       text |-> <<"1", ".", " ", "A", ":", " ", "b", "\n", "2", ".", " ", "c">>,
       items |-> <<[number |-> <<"1">>, content |-> <<"A", ":", " ", "b">>,
                    title |-> <<"A">>, parts |-> <<TextPart(<<"b">>)>>],
                   [number |-> <<"2">>, content |-> <<"c">>,
                    title |-> Null, parts |-> <<TextPart(<<"c">>)>>]>>,
       parts |-> <<>>]>>

\* C13: a paragraph is rendered as a list exactly when it has a line of the
\* form "<digits>. ...", the list is never empty and has one item per such
\* line, in line order, with the digits of the line; the paragraph of the
\* lines "1. A: b" and "2. c" gives two items, the first with the title A and
\* the second with no title.
C13_ListPerMatchingLine ==
    fmtOut.rendered =>
        /\ \A k \in 1..Len(fmtOut.blocks) :
               LET block == fmtOut.blocks[k]
                   expected == ListLines(Lines(block.text, <<>>))
               IN  /\ block.kind = "ol" => block.items # <<>>
                   /\ block.kind = "paragraph" => expected = <<>>
                   /\ block.kind = "ol" =>
                          /\ Len(block.items) = Len(expected)
                          /\ \A j \in 1..Len(expected) :
                                 block.items[j].number = expected[j].number
        /\ fmtText = ListExampleText => fmtOut.blocks = ListExampleBlocks

\* the interval of the session that is running: the one the last effect run
\* of the mounted instance set
SessionIntervals == IF mounted /\ hasCleanup THEN {typingInterval} ELSE {}

\* C14: an interval that is set is that of the running session, so the
\* interval of a session that was torn down (by the cleanup of its effect or
\* with its instance) is cleared and cannot tick; a tick that is queued is a
\* tick of the interval that is set; and the step that clears an interval
\* leaves no tick of it queued.
C14_TeardownReleasesTimer ==
    /\ [](/\ intervals \subseteq SessionIntervals
          /\ \A i \in 1..Len(queue) :
                 queue[i].kind = "tick" => (mounted /\ queue[i].id \in intervals))
    /\ [][\A id \in intervals \ intervals' :
              \A i \in 1..Len(queue') : queue'[i].id # id]_vars

\* C14, its case: the effect has run again while the reveal was on, the
\* interval of the former run is cleared and the one set is that of the new run
C14_Witness ==
    /\ lastOp = "setInput"
    /\ isTyping
    /\ typingInterval = 2
    /\ intervals = {2}
    /\ 1 \notin DOMAIN closures

\* a session is running: the interval of the mounted instance is set
SessionRunning ==
    mounted /\ typingInterval \in intervals /\ typingInterval \in DOMAIN closures

\* no setDisplayedText("") of an effect run is waiting for a render
NoResetQueued == \A i \in 1..Len(queue) : queue[i].kind # "reset"

\* the queued updates are ticks, and the text has a character left for each
OnlyTicksQueued ==
    /\ queue # <<>>
    /\ \A i \in 1..Len(queue) : queue[i].kind = "tick"
    /\ closures[typingInterval].currentIndex + Len(queue)
           <= Len(closures[typingInterval].text)

RECURSIVE Hrefs(_)
Hrefs(parts) ==
    IF parts = <<>> THEN <<>>
    ELSE (IF Head(parts).link THEN <<Head(parts).href>> ELSE <<>>)
         \o Hrefs(Tail(parts))

\* C16: in every item of a rendered list, with or without a title, the URLs
\* of the content of the item (those the Linkifier finds in it) are the
\* targets of the links of the item, in order.
C16_ItemUrlsAreLinks ==
    fmtOut.rendered =>
        \A k \in 1..Len(fmtOut.blocks) :
            \A j \in 1..Len(fmtOut.blocks[k].items) :
                LET item == fmtOut.blocks[k].items[j] IN
                Hrefs(item.parts) = Hrefs(replaceUrlsWithLinks(item.content))

=============================================================================
